---------------------------- MODULE Spec2Model ----------------------------
(***************************************************************************)
(* dynhttpsrv: an HTTP server whose routing table (a gorilla/mux router)   *)
(* is rebuilt from the endpoint list on every AddEndpoint / DelEndpoint    *)
(* and swapped into a mutex-guarded holder read by every request.          *)
(*                                                                         *)
(* The specifications share the variables:                                 *)
(*   Spec      the registration API called serially, each call and each    *)
(*             dispatch running to completion;                             *)
(*   SpecConc  the same code statement by statement: one caller goroutine  *)
(*             mutating the registry while request goroutines dispatch;    *)
(*   SpecConcFair  SpecConc under the scheduler's and the mutex's fairness; *)
(*   SpecHandler   a handler that calls the registration API itself;       *)
(*   SpecRace  two AddEndpoint calls with nothing serializing them;        *)
(*   SpecWatch the goroutines New starts, beside serial calls.             *)
(***************************************************************************)
EXTENDS Integers, Sequences, FiniteSets, TLC

(***************************************************************************)
(* Bounds.                                                                 *)
(***************************************************************************)
\* Rebuilds (routers allocated by reloadEndpoints) in a run of Spec.
MaxReloads == 3

\* Rebuilds in a run of SpecConc.
MaxConcReloads == 2

(***************************************************************************)
(* Strings are sequences of characters, so that prefix, suffix and         *)
(* trimming are computed and not looked up.                                *)
(***************************************************************************)
PathA == <<"/", "a">>

PathASlash == <<"/", "a", "/">>

PathB == <<"/", "b">>

PathRoot == <<"/">>

HasSuffixSlash(s) == Len(s) > 0 /\ s[Len(s)] = "/"

HasPrefix(s, p) == Len(p) <= Len(s) /\ SubSeq(s, 1, Len(p)) = p

\* strings.ToUpper on the method names in use.
ToUpper(m) ==
    CASE m = "get" -> "GET"
      [] m = "post" -> "POST"
      [] OTHER -> m

RECURSIVE MapUpper(_)
MapUpper(ms) ==
    IF ms = <<>> THEN <<>> ELSE <<ToUpper(Head(ms))>> \o MapUpper(Tail(ms))

InSeq(x, s) == \E i \in 1..Len(s) : s[i] = x

(***************************************************************************)
(* Go slices: nil is distinct from an empty non-nil slice.                 *)
(***************************************************************************)
NilSlice == [isNil |-> TRUE, elems |-> <<>>]

Slice(s) == [isNil |-> FALSE, elems |-> s]

(***************************************************************************)
(* Endpoint objects.  An endpoint is a *Endpoint: its identity is its      *)
(* address, here its index in the pool.  Endpoints 1 and 6 are equal field *)
(* by field and are two objects.                                           *)
(***************************************************************************)
EndpointIds == 1..6

Endpoint(e) ==
    CASE e = 1 -> [Methods |-> Slice(<<"GET">>), Paths |-> Slice(<<PathA>>),
                   Handler |-> "hA"]
      [] e = 2 -> [Methods |-> NilSlice, Paths |-> NilSlice, Handler |-> "hB"]
      [] e = 3 -> [Methods |-> NilSlice, Paths |-> Slice(<<PathA, PathB>>),
                   Handler |-> "hC"]
      [] e = 4 -> [Methods |-> Slice(<<"post">>), Paths |-> NilSlice,
                   Handler |-> "hD"]
      [] e = 5 -> [Methods |-> Slice(<<"GET">>), Paths |-> Slice(<<>>),
                   Handler |-> "hE"]
      [] e = 6 -> [Methods |-> Slice(<<"GET">>), Paths |-> Slice(<<PathA>>),
                   Handler |-> "hA"]

\* The endpoints the caller of SpecConc registers.
ConcEndpointIds == {1, 2}

\* Requests: method and URL path.
Requests == [method : {"GET", "POST"}, path : {PathA, PathASlash, PathB}]

\* The requests the request goroutines of SpecConc carry.
ConcRequests == [method : {"GET", "POST"}, path : {PathA}]

(***************************************************************************)
(* gorilla/mux routes.  A route holds a path matcher (exact, from          *)
(* HandleFunc, or prefix, from PathPrefix), an optional method matcher     *)
(* (from Methods), and the handler.  ep records the endpoint object the    *)
(* route was registered for.                                               *)
(***************************************************************************)
\* Mutant: the path routes are registered without their Methods matcher.
PathRouteAnyMethod(e, tpl) ==
    [kind |-> "path", tpl |-> tpl, strictSlash |-> TRUE,
     anyMethod |-> TRUE, methods |-> <<>>,
     handler |-> Endpoint(e).Handler, ep |-> e]

\* newRouter.HandleFunc(path, h) [.Methods(ms...)] on a StrictSlash(true) router
PathRoute(e, tpl) ==
    [kind |-> "path", tpl |-> tpl, strictSlash |-> TRUE,
     anyMethod |-> Endpoint(e).Methods.isNil,
     methods |-> MapUpper(Endpoint(e).Methods.elems),
     handler |-> Endpoint(e).Handler, ep |-> e]

\* Mutant: the catch-all registered with HandleFunc("/") instead of PathPrefix("/").
PrefixRouteAsPath(e, tpl) == PathRoute(e, tpl)

\* newRouter.PathPrefix("/").HandlerFunc(h) [.Methods(ms...)]
PrefixRoute(e, tpl) ==
    [kind |-> "prefix", tpl |-> tpl, strictSlash |-> FALSE,
     anyMethod |-> Endpoint(e).Methods.isNil,
     methods |-> MapUpper(Endpoint(e).Methods.elems),
     handler |-> Endpoint(e).Handler, ep |-> e]

RECURSIVE PathRoutes(_, _)
PathRoutes(e, paths) ==
    IF paths = <<>> THEN <<>>
    ELSE <<PathRoute(e, Head(paths))>> \o PathRoutes(e, Tail(paths))

\* Mutant: the catch-all is registered when len(endpoint.Paths) == 0.
EndpointRoutesLenZero(e) ==
    IF Endpoint(e).Paths.elems = <<>>
    THEN <<PrefixRoute(e, PathRoot)>>
    ELSE PathRoutes(e, Endpoint(e).Paths.elems)

\* The body of the loop of reloadEndpoints: the routes one endpoint adds.
EndpointRoutes(e) ==
    IF Endpoint(e).Paths.isNil
    THEN <<PrefixRoute(e, PathRoot)>>
    ELSE PathRoutes(e, Endpoint(e).Paths.elems)

\* Mutant: the loop runs over the list from its end.
RECURSIVE reloadRoutesReversed(_)
reloadRoutesReversed(list) ==
    IF list = <<>> THEN <<>>
    ELSE reloadRoutesReversed(Tail(list)) \o EndpointRoutes(Head(list))

\* The loop of reloadEndpoints over a list of endpoints, in list order.
RECURSIVE reloadRoutes(_)
reloadRoutes(list) ==
    IF list = <<>> THEN <<>>
    ELSE EndpointRoutes(Head(list)) \o reloadRoutes(Tail(list))

(***************************************************************************)
(* mux.Router.ServeHTTP: routes are tried in registration order and the    *)
(* first route whose matchers all match serves the request.  A route       *)
(* whose path matches and whose method does not leaves a method mismatch,  *)
(* answered 405 when no later route matches; otherwise 404.  On a          *)
(* StrictSlash route a path that differs from the template only by its     *)
(* trailing slash matches and is answered by a redirect.                   *)
(***************************************************************************)
TrimSlash(s) == IF HasSuffixSlash(s) THEN SubSeq(s, 1, Len(s) - 1) ELSE s

PathMatches(r, path) ==
    IF r.kind = "prefix"
    THEN HasPrefix(path, r.tpl)
    ELSE IF r.strictSlash
         THEN path = TrimSlash(r.tpl) \/ path = TrimSlash(r.tpl) \o <<"/">>
         ELSE path = r.tpl

MethodMatches(r, method) == r.anyMethod \/ InSeq(method, r.methods)

NotFound == [kind |-> "notfound", h |-> "404", ep |-> 0]

MethodNotAllowed == [kind |-> "notallowed", h |-> "405", ep |-> 0]

RouteHandler(r, path) ==
    IF r.kind = "path" /\ r.strictSlash
       /\ HasSuffixSlash(path) # HasSuffixSlash(r.tpl)
    THEN [kind |-> "redirect", h |-> "301", ep |-> 0]
    ELSE [kind |-> "handler", h |-> r.handler, ep |-> r.ep]

RECURSIVE MatchFrom(_, _, _, _)
MatchFrom(routes, i, req, mismatch) ==
    IF i > Len(routes)
    THEN IF mismatch THEN MethodNotAllowed ELSE NotFound
    ELSE IF ~PathMatches(routes[i], req.path)
         THEN MatchFrom(routes, i + 1, req, mismatch)
         ELSE IF ~MethodMatches(routes[i], req.method)
              THEN MatchFrom(routes, i + 1, req, TRUE)
              ELSE RouteHandler(routes[i], req.path)

\* router.ServeHTTP(w, r): the handler that serves req on a router with these routes.
RouterServe(routes, req) == MatchFrom(routes, 1, req, FALSE)


(***************************************************************************)
(* State.                                                                  *)
(***************************************************************************)
VARIABLES
    Endpoints,  \* dhs.Endpoints: the list of registered *Endpoint
    router,     \* sr.router of the shared swappableRouter: a *mux.Router
    mu,         \* sr.mu: "free" or the goroutine holding it
    routers,    \* the mux.Router objects allocated so far: routers[p] are the routes of *p
    caller,     \* the goroutines calling AddEndpoint / DelEndpoint, statement by statement
    worker,     \* the goroutines running swappableRouter.ServeHTTP, statement by statement
    last,       \* Spec: the last call made, what it returned, the state it started from
    log,        \* history: one entry per swap, with the router installed and its routes then
    watch,      \* New: ctx, the ListenAndServe goroutine, the goroutine polling ctx
    overlap     \* history: whether two registration calls have been in progress at once

vars == <<Endpoints, router, mu, routers, caller, worker, last, log, watch, overlap>>

\* The goroutines that may run AddEndpoint / DelEndpoint in some specification.
AllCallers == {"c1", "c2", "w1"}

Callers == {"c1"}

Workers == {"w1", "w2"}

NoReq == [method |-> "", path |-> <<>>]

NoServe == [kind |-> "none", h |-> "", ep |-> 0]

CallerIdle(op, ep, err) ==
    [pc |-> "idle", op |-> op, ep |-> ep, err |-> err,
     pos |-> -1, newRouter |-> 0, list |-> <<>>, i |-> 0]

WorkerIdle ==
    [pc |-> "idle", req |-> NoReq, sr |-> 0, router |-> 0, served |-> NoServe,
     seen |-> {}, snap |-> <<>>]

\* A call record of Spec, with the state the call started from.
Call(op, ep, req, err, served) ==
    [op |-> op, ep |-> ep, req |-> req, err |-> err, served |-> served,
     prevEndpoints |-> Endpoints, prevRouter |-> router,
     prevRoutes |-> routers[router], prevLen |-> Len(routers)]

\* New's ctx, not done yet (ctx.Err() is nil), and the two
\* goroutines New starts: ListenAndServe and the loop polling ctx.Err().
WatchInit ==
    [ctx : {"nil"}, listen : {"starting"}, pc : {"check"}, shutdowns : {0}]

\* New: the holder is created around mux.NewRouter(), a router with no routes,
\* and the endpoint list is empty.
Init ==
    /\ Endpoints = <<>>
    /\ routers = << <<>> >>
    /\ router = 1
    /\ mu = "free"
    /\ caller = [c \in AllCallers |-> CallerIdle("none", 0, "nil")]
    /\ worker = [w \in Workers |-> WorkerIdle]
    /\ last = [op |-> "new", ep |-> 0, req |-> NoReq, err |-> "nil",
               served |-> NoServe, prevEndpoints |-> <<>>, prevRouter |-> 1,
               prevRoutes |-> <<>>, prevLen |-> 1]
    /\ log = <<>>
    /\ watch \in WatchInit
    /\ overlap = FALSE

(***************************************************************************)
(* Helpers of AddEndpoint and DelEndpoint.                                 *)
(***************************************************************************)
\* for i, existingEndpoint := range list { if existingEndpoint == endpoint { pos = i; break } }
\* Positions are Go's, from 0; -1 when the endpoint is not in the list.
RECURSIVE ScanFrom(_, _, _)
ScanFrom(list, e, i) ==
    IF i > Len(list) THEN -1
    ELSE IF list[i] = e THEN i - 1
    ELSE ScanFrom(list, e, i + 1)

\* Mutant: the scan starts at the second entry.
FindPosSkipFirst(list, e) == ScanFrom(list, e, 2)

\* Mutant: the scan compares the endpoints field by field, not their addresses.
FindPosByValue(list, e) ==
    IF \E i \in 1..Len(list) : Endpoint(list[i]) = Endpoint(e)
    THEN (CHOOSE i \in 1..Len(list) :
             /\ Endpoint(list[i]) = Endpoint(e)
             /\ \A j \in 1..(i - 1) : Endpoint(list[j]) # Endpoint(e)) - 1
    ELSE -1

FindPos(list, e) == ScanFrom(list, e, 1)

\* Mutant: the endpoint is put at the head of the list.
PrependEndpoint(list, e) == <<e>> \o list

\* Mutant: the new list holds the new endpoint only.
AppendEndpointOverwrite(list, e) == <<e>>

\* append(list, endpoint)
AppendEndpoint(list, e) == Append(list, e)

\* Mutant: the last entry is dropped, whatever pos is.
RemoveAtLast(list, pos) == SubSeq(list, 1, Len(list) - 1)

\* Mutant: the first entry is dropped, whatever pos is.
RemoveAtFirst(list, pos) == SubSeq(list, 2, Len(list))

\* append(list[0:pos], list[pos+1:]...)
RemoveAt(list, pos) == SubSeq(list, 1, pos) \o SubSeq(list, pos + 2, Len(list))

\* Mutant: the loop stops one endpoint short.
reloadEndpointsSkipLast(list) == reloadRoutes(SubSeq(list, 1, Len(list) - 1))

\* reloadEndpoints up to the swap: the routes of the new router.
reloadEndpoints(list) == reloadRoutes(list)

LogEntry(op, ep, list, p, routes) ==
    [op |-> op, ep |-> ep, list |-> list, router |-> p, routes |-> routes]

(***************************************************************************)
(* Spec: calls made one after the other, each running to completion.       *)
(***************************************************************************)
\* reloadEndpoints and swap, for the list the call has just stored.
ReloadSwapReturn(op, e, list, err) ==
    /\ Endpoints' = list
    /\ routers' = Append(routers, reloadEndpoints(list))
    /\ router' = Len(routers) + 1
    /\ log' = Append(log, LogEntry(op, e, list, Len(routers) + 1,
                                   reloadEndpoints(list)))
    /\ last' = Call(op, e, NoReq, err, NoServe)
    /\ UNCHANGED <<mu, caller, worker, watch, overlap>>

\* The successful end of AddEndpoint and DelEndpoint: reload, swap, return nil.
ReloadAndSwap(op, e, list) == ReloadSwapReturn(op, e, list, "nil")

ReturnError(op, e, err) ==
    /\ last' = Call(op, e, NoReq, err, NoServe)
    /\ UNCHANGED <<Endpoints, router, mu, routers, caller, worker, log, watch, overlap>>

\* Mutant: the endpoint is appended without the scan.
AddEndpointNoCheck(e) ==
    /\ Len(routers) <= MaxReloads
    /\ ReloadAndSwap("add", e, AppendEndpoint(Endpoints, e))

AddEndpoint(e) ==
    LET pos == FindPos(Endpoints, e) IN
    IF pos # -1
    THEN ReturnError("add", e, "endpoint already added")
    ELSE /\ Len(routers) <= MaxReloads
         /\ ReloadAndSwap("add", e, AppendEndpoint(Endpoints, e))

\* Mutant: the table is rebuilt before the scan's result is looked at.
DelEndpointReloadFirst(e) ==
    LET pos == FindPos(Endpoints, e) IN
    /\ Len(routers) <= MaxReloads
    /\ IF pos = -1
       THEN ReloadSwapReturn("del", e, Endpoints, "endpoint not found")
       ELSE ReloadAndSwap("del", e, RemoveAt(Endpoints, pos))

DelEndpoint(e) ==
    LET pos == FindPos(Endpoints, e) IN
    IF pos = -1
    THEN ReturnError("del", e, "endpoint not found")
    ELSE /\ Len(routers) <= MaxReloads
         /\ ReloadAndSwap("del", e, RemoveAt(Endpoints, pos))

\* swappableRouter.ServeHTTP with no swap running: the router read is sr.router.
ServeHTTP(req) ==
    /\ last' = Call("serve", 0, req, "nil", RouterServe(routers[router], req))
    /\ UNCHANGED <<Endpoints, router, mu, routers, caller, worker, log, watch, overlap>>

Next ==
    \/ \E e \in EndpointIds : AddEndpoint(e)
    \/ \E e \in EndpointIds : DelEndpoint(e)
    \/ \E req \in Requests : ServeHTTP(req)

Spec == Init /\ [][Next]_vars

(***************************************************************************)
(* SpecConc: the same code, one statement per step.                        *)
(*                                                                         *)
(* A caller goroutine runs AddEndpoint / DelEndpoint (one call at a time,  *)
(* as the registry requires), request goroutines run ServeHTTP.            *)
(***************************************************************************)
Reloads == Len(routers) - 1

\* AddEndpoint, the scan for the endpoint.
AddScan(c, e) ==
    /\ caller[c].pc = "idle"
    /\ FindPos(Endpoints, e) # -1 \/ Reloads < MaxConcReloads
    /\ caller' = [caller EXCEPT ![c] =
                    [CallerIdle("add", e, "nil") EXCEPT
                        !.pc = "add_check", !.pos = FindPos(Endpoints, e)]]
    /\ UNCHANGED <<Endpoints, router, mu, routers, worker, last, log, watch, overlap>>

\* AddEndpoint, after the scan: the error return, or the append.
AddCheck(c) ==
    /\ caller[c].pc = "add_check"
    /\ IF caller[c].pos # -1
       THEN /\ caller' = [caller EXCEPT ![c] =
                            CallerIdle("add", caller[c].ep, "endpoint already added")]
            /\ UNCHANGED Endpoints
       ELSE /\ Endpoints' = AppendEndpoint(Endpoints, caller[c].ep)
            /\ caller' = [caller EXCEPT ![c].pc = "reload"]
    /\ UNCHANGED <<router, mu, routers, worker, last, log, watch, overlap>>

\* DelEndpoint, the scan for the endpoint.
DelScan(c, e) ==
    /\ caller[c].pc = "idle"
    /\ FindPos(Endpoints, e) = -1 \/ Reloads < MaxConcReloads
    /\ caller' = [caller EXCEPT ![c] =
                    [CallerIdle("del", e, "nil") EXCEPT
                        !.pc = "del_check", !.pos = FindPos(Endpoints, e)]]
    /\ UNCHANGED <<Endpoints, router, mu, routers, worker, last, log, watch, overlap>>

\* DelEndpoint, after the scan: the error return, or the removal.
DelCheck(c) ==
    /\ caller[c].pc = "del_check"
    /\ IF caller[c].pos = -1
       THEN /\ caller' = [caller EXCEPT ![c] =
                            CallerIdle("del", caller[c].ep, "endpoint not found")]
            /\ UNCHANGED Endpoints
       ELSE /\ Endpoints' = RemoveAt(Endpoints, caller[c].pos)
            /\ caller' = [caller EXCEPT ![c].pc = "reload"]
    /\ UNCHANGED <<router, mu, routers, worker, last, log, watch, overlap>>

\* The router a reload step writes its routes to.
BuildTarget(c) == caller[c].newRouter

\* reloadEndpoints: newRouter := mux.NewRouter().StrictSlash(true), and the
\* range expression dhs.Endpoints is evaluated.
ReloadNew(c) ==
    /\ caller[c].pc = "reload"
    /\ routers' = Append(routers, <<>>)
    /\ caller' = [caller EXCEPT ![c].pc = "reload_loop",
                                ![c].newRouter = Len(routers) + 1,
                                ![c].list = Endpoints,
                                ![c].i = 1]
    /\ UNCHANGED <<Endpoints, router, mu, worker, last, log, watch, overlap>>

\* reloadEndpoints: one iteration of the loop over the endpoints.
ReloadLoop(c) ==
    /\ caller[c].pc = "reload_loop"
    /\ caller[c].i <= Len(caller[c].list)
    /\ routers' = [routers EXCEPT ![BuildTarget(c)] =
                      @ \o EndpointRoutes(caller[c].list[caller[c].i])]
    /\ caller' = [caller EXCEPT ![c].i = @ + 1]
    /\ UNCHANGED <<Endpoints, router, mu, worker, last, log, watch, overlap>>

\* Mutant: the loop is left one iteration early.
LoopDoneEarly(c) == caller[c].i >= Len(caller[c].list)

\* Whether the loop of reloadEndpoints has ended, so that swap may be called.
LoopDone(c) == caller[c].i > Len(caller[c].list)

\* swap: sr.mu.Lock()
SwapLock(c) ==
    /\ caller[c].pc = "reload_loop"
    /\ LoopDone(c)
    /\ mu = "free"
    /\ mu' = c
    /\ caller' = [caller EXCEPT ![c].pc = "swap_write"]
    /\ UNCHANGED <<Endpoints, router, routers, worker, last, log, watch, overlap>>

\* swap: sr.router = newRouter
SwapWrite(c) ==
    /\ caller[c].pc = "swap_write"
    /\ router' = caller[c].newRouter
    /\ caller' = [caller EXCEPT ![c].pc = "swap_unlock"]
    /\ log' = Append(log, LogEntry(caller[c].op, caller[c].ep, caller[c].list,
                                   caller[c].newRouter,
                                   routers[caller[c].newRouter]))
    /\ worker' = [w \in Workers |->
                    IF worker[w].pc = "idle" THEN worker[w]
                    ELSE [worker[w] EXCEPT !.seen = @ \cup {caller[c].newRouter}]]
    /\ UNCHANGED <<Endpoints, mu, routers, last, watch, overlap>>

\* swap: sr.mu.Unlock(), and the call returns nil.
SwapUnlock(c) ==
    /\ caller[c].pc = "swap_unlock"
    /\ mu' = "free"
    /\ caller' = [caller EXCEPT ![c] = CallerIdle(caller[c].op, caller[c].ep, "nil")]
    /\ UNCHANGED <<Endpoints, router, routers, worker, last, log, watch, overlap>>

(***************************************************************************)
(* swappableRouter.ServeHTTP has a value receiver and the server holds a   *)
(* *swappableRouter: entering the method copies the struct, router field   *)
(* included, with no lock held.  The copy races with swap's write; the     *)
(* field is one word, so the copy holds the pointer stored before or after *)
(* the write, which is the pointer held at the instant of this step.       *)
(***************************************************************************)
ReceiverCopy == router

ServeEnter(w, req) ==
    /\ worker[w].pc = "idle"
    /\ worker' = [worker EXCEPT ![w] =
                    [WorkerIdle EXCEPT !.pc = "entered", !.req = req,
                                       !.sr = ReceiverCopy,
                                       !.seen = {router},
                                       !.snap = routers[ReceiverCopy]]]
    /\ UNCHANGED <<Endpoints, router, mu, routers, caller, last, log, watch, overlap>>

\* sr.mu.Lock(): mu is a pointer, so the copy locks the shared mutex.
ServeLock(w) ==
    /\ worker[w].pc = "entered"
    /\ mu = "free"
    /\ mu' = w
    /\ worker' = [worker EXCEPT ![w].pc = "locked"]
    /\ UNCHANGED <<Endpoints, router, routers, caller, last, log, watch, overlap>>

\* router := sr.router, read from the copy.
ServeRead(w) ==
    /\ worker[w].pc = "locked"
    /\ worker' = [worker EXCEPT ![w].pc = "read", ![w].router = worker[w].sr]
    /\ UNCHANGED <<Endpoints, router, mu, routers, caller, last, log, watch, overlap>>

\* Mutant: the dispatch keeps the mutex while the router matches and the
\* handler runs (the unlock deferred to the return of ServeHTTP).
ServeUnlockDeferred(w) ==
    /\ worker[w].pc = "read"
    /\ worker' = [worker EXCEPT ![w].pc = "unlocked"]
    /\ UNCHANGED <<Endpoints, router, mu, routers, caller, last, log, watch, overlap>>

\* sr.mu.Unlock()
ServeUnlock(w) ==
    /\ worker[w].pc = "read"
    /\ mu' = "free"
    /\ worker' = [worker EXCEPT ![w].pc = "unlocked"]
    /\ UNCHANGED <<Endpoints, router, routers, caller, last, log, watch, overlap>>

\* Mutant: the routing reads sr.router again instead of the pointer it captured.
ServingRouterCurrent(w) == router

\* The router whose routes decide the request.
ServingRouter(w) == worker[w].router

\* router.ServeHTTP(w, r): the routes of the router read are matched and the
\* handler found starts running.
ServeRoute(w) ==
    /\ worker[w].pc = "unlocked"
    /\ worker' = [worker EXCEPT ![w].pc = "served",
                    ![w].served = RouterServe(routers[ServingRouter(w)],
                                              worker[w].req)]
    /\ UNCHANGED <<Endpoints, router, mu, routers, caller, last, log, watch, overlap>>

\* The handler returns, and ServeHTTP with it.
ServeReturn(w) ==
    /\ worker[w].pc = "served"
    /\ worker' = [worker EXCEPT ![w] = WorkerIdle]
    /\ UNCHANGED <<Endpoints, router, mu, routers, caller, last, log, watch, overlap>>

NextConc ==
    \/ \E c \in Callers, e \in ConcEndpointIds : AddScan(c, e)
    \/ \E c \in Callers : AddCheck(c)
    \/ \E c \in Callers, e \in ConcEndpointIds : DelScan(c, e)
    \/ \E c \in Callers : DelCheck(c)
    \/ \E c \in Callers : ReloadNew(c)
    \/ \E c \in Callers : ReloadLoop(c)
    \/ \E c \in Callers : SwapLock(c)
    \/ \E c \in Callers : SwapWrite(c)
    \/ \E c \in Callers : SwapUnlock(c)
    \/ \E w \in Workers, req \in ConcRequests : ServeEnter(w, req)
    \/ \E w \in Workers : ServeLock(w)
    \/ \E w \in Workers : ServeRead(w)
    \/ \E w \in Workers : ServeUnlock(w)
    \/ \E w \in Workers : ServeRoute(w)
    \/ \E w \in Workers : ServeReturn(w)

SpecConc == Init /\ [][NextConc]_vars

(***************************************************************************)
(* SpecConcFair: SpecConc under the fairness the Go runtime gives.         *)
(*                                                                         *)
(* A goroutine that can run its next statement eventually runs it: this    *)
(* holds of the statements of AddEndpoint / DelEndpoint once called and of *)
(* the three statements of ServeHTTP's critical section.  sync.Mutex hands *)
(* the lock to a waiter that has failed to get it for 1ms (starvation      *)
(* mode), so a Lock that is possible again and again succeeds: strong      *)
(* fairness for the Lock calls.  Nothing is assumed of the handlers: the   *)
(* routing step and the return of the handler may never happen, and no     *)
(* call or request has to start.                                           *)
(***************************************************************************)
CallerStep(c) ==
    \/ AddCheck(c)
    \/ DelCheck(c)
    \/ ReloadNew(c)
    \/ ReloadLoop(c)
    \/ SwapWrite(c)
    \/ SwapUnlock(c)

CriticalSectionStep(w) == ServeRead(w) \/ ServeUnlock(w)

FairConc ==
    /\ \A c \in Callers : WF_vars(CallerStep(c)) /\ SF_vars(SwapLock(c))
    /\ \A w \in Workers : WF_vars(CriticalSectionStep(w)) /\ SF_vars(ServeLock(w))

SpecConcFair == SpecConc /\ FairConc

(***************************************************************************)
(* SpecHandler: a handler that calls AddEndpoint / DelEndpoint on the      *)
(* server it is served by.  Request goroutine w1 makes the calls while its *)
(* handler runs, c1 is the goroutine that registers from outside.  The     *)
(* registration calls are serialized, as the registry requires: a call     *)
(* starts when no other is running.  A handler returns after the call it   *)
(* made has returned.                                                      *)
(***************************************************************************)
HandlerCallers == {"c1", "w1"}

HandlerWorkers == {"w1"}

\* Whether goroutine c is where it can call AddEndpoint / DelEndpoint: no
\* other call is running and, for a request goroutine, the handler of an
\* endpoint is running.
MayCall(c) ==
    /\ \A d \in HandlerCallers \ {c} : caller[d].pc = "idle"
    /\ c \in Workers =>
          worker[c].pc = "served" /\ worker[c].served.kind = "handler"

CallAdd(c, e) == MayCall(c) /\ AddScan(c, e)

CallDel(c, e) == MayCall(c) /\ DelScan(c, e)

\* The handler returns, the call it made, if any, having returned.
HandlerReturn(w) ==
    /\ w \in HandlerCallers => caller[w].pc = "idle"
    /\ ServeReturn(w)

NextHandler ==
    \/ \E c \in HandlerCallers, e \in ConcEndpointIds : CallAdd(c, e)
    \/ \E c \in HandlerCallers : AddCheck(c)
    \/ \E c \in HandlerCallers, e \in ConcEndpointIds : CallDel(c, e)
    \/ \E c \in HandlerCallers : DelCheck(c)
    \/ \E c \in HandlerCallers : ReloadNew(c)
    \/ \E c \in HandlerCallers : ReloadLoop(c)
    \/ \E c \in HandlerCallers : SwapLock(c)
    \/ \E c \in HandlerCallers : SwapWrite(c)
    \/ \E c \in HandlerCallers : SwapUnlock(c)
    \/ \E w \in HandlerWorkers, req \in ConcRequests : ServeEnter(w, req)
    \/ \E w \in HandlerWorkers : ServeLock(w)
    \/ \E w \in HandlerWorkers : ServeRead(w)
    \/ \E w \in HandlerWorkers : ServeUnlock(w)
    \/ \E w \in HandlerWorkers : ServeRoute(w)
    \/ \E w \in HandlerWorkers : HandlerReturn(w)

\* The fairness of SpecConcFair, for the goroutines of SpecHandler.
FairHandler ==
    /\ \A c \in HandlerCallers : WF_vars(CallerStep(c)) /\ SF_vars(SwapLock(c))
    /\ \A w \in HandlerWorkers : WF_vars(CriticalSectionStep(w)) /\ SF_vars(ServeLock(w))

SpecHandler == Init /\ [][NextHandler]_vars /\ FairHandler

(***************************************************************************)
(* SpecRace: AddEndpoint called by two goroutines with nothing between     *)
(* them.  dhs.Endpoints is read and written with no lock, so the           *)
(* statement dhs.Endpoints = append(dhs.Endpoints, endpoint) is a read of  *)
(* the slice and, later, a write of the new one.  Every append here finds  *)
(* len = cap (0, 1, 2) and allocates, so no two slices share an array.     *)
(* A read of the slice that coincides with the other goroutine's write of  *)
(* it may pair the old array with the new length: what the goroutine does  *)
(* then is not defined, and it is taken out of the run ("fault").          *)
(***************************************************************************)
RaceCallers == {"c1", "c2"}

\* Whether a call other than c's is in progress.
OthersRunning(c) == \E d \in RaceCallers \ {c} : caller[d].pc # "idle"

\* AddEndpoint is called: the scan of dhs.Endpoints.
RaceAddScan(c, e) ==
    /\ caller[c].pc = "idle"
    /\ FindPos(Endpoints, e) # -1 \/ Reloads < MaxConcReloads
    /\ caller' = [caller EXCEPT ![c] =
                    [CallerIdle("add", e, "nil") EXCEPT
                        !.pc = "add_check", !.pos = FindPos(Endpoints, e)]]
    /\ overlap' = (overlap \/ OthersRunning(c))
    /\ UNCHANGED <<Endpoints, router, mu, routers, worker, last, log, watch>>

\* After the scan: the error return, or the read of dhs.Endpoints that
\* append is called with.
RaceAddCheck(c) ==
    /\ caller[c].pc = "add_check"
    /\ caller' = [caller EXCEPT ![c] =
                    IF caller[c].pos # -1
                    THEN CallerIdle("add", caller[c].ep, "endpoint already added")
                    ELSE [caller[c] EXCEPT !.pc = "append_write",
                                           !.list = Endpoints]]
    /\ UNCHANGED <<Endpoints, router, mu, routers, worker, last, log, watch, overlap>>

\* dhs.Endpoints = <the slice append returned>
RaceAppendWrite(c) ==
    /\ caller[c].pc = "append_write"
    /\ Endpoints' = AppendEndpoint(caller[c].list, caller[c].ep)
    /\ caller' = [caller EXCEPT ![c].pc = "reload"]
    /\ UNCHANGED <<router, mu, routers, worker, last, log, watch, overlap>>

\* A read of dhs.Endpoints (append's argument, or the range expression of
\* reloadEndpoints) at the instant another goroutine writes it.
RaceTornRead(c) ==
    /\ \/ caller[c].pc = "add_check" /\ caller[c].pos = -1
       \/ caller[c].pc = "reload"
    /\ \E d \in RaceCallers \ {c} : caller[d].pc = "append_write"
    /\ caller' = [caller EXCEPT ![c].pc = "fault"]
    /\ UNCHANGED <<Endpoints, router, mu, routers, worker, last, log, watch, overlap>>

NextRace ==
    \/ \E c \in RaceCallers, e \in ConcEndpointIds : RaceAddScan(c, e)
    \/ \E c \in RaceCallers : RaceAddCheck(c)
    \/ \E c \in RaceCallers : RaceAppendWrite(c)
    \/ \E c \in RaceCallers : RaceTornRead(c)
    \/ \E c \in RaceCallers : ReloadNew(c)
    \/ \E c \in RaceCallers : ReloadLoop(c)
    \/ \E c \in RaceCallers : SwapLock(c)
    \/ \E c \in RaceCallers : SwapWrite(c)
    \/ \E c \in RaceCallers : SwapUnlock(c)

SpecRace == Init /\ [][NextRace]_vars

(***************************************************************************)
(* SpecWatch: the two goroutines New starts, with the context's owner, one *)
(* request goroutine and serial registration calls beside them.            *)
(*                                                                         *)
(* ctx.Err() is nil until the context is done, then context.Canceled (the  *)
(* owner called cancel) or context.DeadlineExceeded (its deadline passed), *)
(* and never changes again.  srv.Shutdown(context.Background()) closes the *)
(* listener and returns when no connection is serving a request any more.  *)
(***************************************************************************)
WatchWorkers == {"w1"}

\* The requests being served.
InFlight == {w \in WatchWorkers : worker[w].pc # "idle"}

WatchFrame == <<Endpoints, router, mu, routers, caller, worker, last, log, overlap>>

\* The owner of ctx calls its cancel function.
Cancel ==
    /\ watch.ctx = "nil"
    /\ watch' = [watch EXCEPT !.ctx = "Canceled"]
    /\ UNCHANGED WatchFrame

\* The deadline of ctx (context.WithDeadline, context.WithTimeout) passes.
DeadlineExpires ==
    /\ watch.ctx = "nil"
    /\ watch' = [watch EXCEPT !.ctx = "DeadlineExceeded"]
    /\ UNCHANGED WatchFrame

\* srv.ListenAndServe() has its listener and accepts connections.
ListenOk ==
    /\ watch.listen = "starting"
    /\ watch' = [watch EXCEPT !.listen = "serving"]
    /\ UNCHANGED WatchFrame

\* srv.ListenAndServe() returns an error other than http.ErrServerClosed,
\* which is logged.
ListenFail ==
    /\ watch.listen = "starting"
    /\ watch' = [watch EXCEPT !.listen = "failed"]
    /\ UNCHANGED WatchFrame

\* Mutant: the loop is left as soon as ctx.Err() is not nil.
ShutdownDueAnyErr(err) == err # "nil"

\* ctx.Err() == context.Canceled
ShutdownDue(err) == err = "Canceled"

\* The test at the head of the watcher's loop body.
WatchCheck ==
    /\ watch.pc = "check"
    /\ watch' = [watch EXCEPT !.pc = IF ShutdownDue(watch.ctx)
                                     THEN "shutdown" ELSE "sleep"]
    /\ UNCHANGED WatchFrame

\* time.Sleep(1 * time.Second) returns and the loop goes round.
WatchSleep ==
    /\ watch.pc = "sleep"
    /\ watch' = [watch EXCEPT !.pc = "check"]
    /\ UNCHANGED WatchFrame

\* srv.Shutdown(context.Background()) is called: the listener is closed,
\* ListenAndServe returns http.ErrServerClosed.
ShutdownCall ==
    /\ watch.pc = "shutdown"
    /\ watch' = [watch EXCEPT !.pc = "shutting",
                              !.shutdowns = @ + 1,
                              !.listen = IF @ = "failed" THEN @ ELSE "closed"]
    /\ UNCHANGED WatchFrame

\* srv.Shutdown returns, no request being served; break ends the loop and
\* the goroutine.
ShutdownReturn ==
    /\ watch.pc = "shutting"
    /\ InFlight = {}
    /\ watch' = [watch EXCEPT !.pc = "exited"]
    /\ UNCHANGED WatchFrame

\* The server accepts a request and calls its handler, the swappableRouter.
Accept(w, req) ==
    /\ watch.listen = "serving"
    /\ ServeEnter(w, req)

WatcherStep == WatchCheck \/ WatchSleep \/ ShutdownCall \/ ShutdownReturn

NextWatch ==
    \/ Cancel
    \/ DeadlineExpires
    \/ ListenOk
    \/ ListenFail
    \/ WatchCheck
    \/ WatchSleep
    \/ ShutdownCall
    \/ ShutdownReturn
    \/ \E e \in ConcEndpointIds : AddEndpoint(e)
    \/ \E e \in ConcEndpointIds : DelEndpoint(e)
    \/ \E w \in WatchWorkers, req \in ConcRequests : Accept(w, req)
    \/ \E w \in WatchWorkers : ServeLock(w)
    \/ \E w \in WatchWorkers : ServeRead(w)
    \/ \E w \in WatchWorkers : ServeUnlock(w)
    \/ \E w \in WatchWorkers : ServeRoute(w)
    \/ \E w \in WatchWorkers : ServeReturn(w)

\* ServeHTTP from its Lock to the call of the handler.
DispatchStep(w) == ServeRead(w) \/ ServeUnlock(w) \/ ServeRoute(w)

\* The watcher goroutine is scheduled and its Sleep returns; a request
\* goroutine gets the mutex and reaches its handler.  Nothing is assumed of
\* the context's owner, of the arrival of requests, of the registration
\* calls or of the handlers, which may never return.
FairWatch ==
    /\ WF_vars(WatcherStep)
    /\ \A w \in WatchWorkers : WF_vars(DispatchStep(w)) /\ SF_vars(ServeLock(w))

SpecWatch == Init /\ [][NextWatch]_vars /\ FairWatch

(***************************************************************************)
(* Vocabulary of the properties.                                           *)
(***************************************************************************)
Range(s) == {s[i] : i \in 1..Len(s)}

\* The 1-based place of e in a list holding it once.
PlaceOf(list, e) == CHOOSE i \in 1..Len(list) : list[i] = e

\* Whether one of the routes registered for e matches the request.
Matches(e, req) ==
    \E i \in 1..Len(EndpointRoutes(e)) :
        /\ PathMatches(EndpointRoutes(e)[i], req.path)
        /\ MethodMatches(EndpointRoutes(e)[i], req.method)

\* Whether the request's path is one of e's path patterns and its method one of
\* e's methods (or e takes any method).
ExactMatch(e, req) ==
    /\ ~Endpoint(e).Paths.isNil
    /\ InSeq(req.path, Endpoint(e).Paths.elems)
    /\ \/ Endpoint(e).Methods.isNil
       \/ InSeq(req.method, MapUpper(Endpoint(e).Methods.elems))

\* A global catch-all: no methods, no paths.
IsCatchAll(e) == Endpoint(e).Methods.isNil /\ Endpoint(e).Paths.isNil

HasExplicitPaths(e) == ~Endpoint(e).Paths.isNil /\ Endpoint(e).Paths.elems # <<>>

ServedBy(served, e) ==
    served = [kind |-> "handler", h |-> Endpoint(e).Handler, ep |-> e]

\* The successful mutations so far, in order.
LogOps == [i \in 1..Len(log) |-> <<log[i].op, log[i].ep>>]

\* The endpoint list and the installed routes before the k-th swap.
ListBefore(k) == IF k = 1 THEN <<>> ELSE log[k - 1].list

RoutesBefore(k) == IF k = 1 THEN <<>> ELSE log[k - 1].routes

GetA == [method |-> "GET", path |-> PathA]

PostA == [method |-> "POST", path |-> PathA]

(***************************************************************************)
(* Properties of SpecConc.                                                 *)
(***************************************************************************)
\* C1: a dispatch takes the table pointer once, on entry; the pointer is one
\* that was installed at some instant of the call; the router it locks and
\* reads is that same pointer; and the handler it reaches is the one the
\* table gave when it was captured, whatever has been swapped in since.
C1_DispatchUsesOneCapturedTable ==
    \A w \in Workers :
        /\ worker[w].pc # "idle" =>
              /\ worker[w].sr \in worker[w].seen
              /\ routers[worker[w].sr] = worker[w].snap
        /\ worker[w].pc \in {"read", "unlocked", "served"} =>
              worker[w].router = worker[w].sr
        /\ worker[w].pc = "served" =>
              worker[w].served = RouterServe(worker[w].snap, worker[w].req)

\* C1 witness: a request is in the handler of endpoint 1, reached through a
\* table that has been swapped out, after endpoint 1 was removed.
C1_Witness ==
    \E w \in Workers :
        /\ worker[w].pc = "served"
        /\ ServedBy(worker[w].served, 1)
        /\ worker[w].sr # router
        /\ ~InSeq(1, Endpoints)
        /\ Cardinality(worker[w].seen) >= 2

InstalledRouters == {1} \cup {log[i].router : i \in 1..Len(log)}

\* C10: the pointer in the holder, and every pointer a dispatch has taken
\* from it, is a router that was installed; the initial router has no routes;
\* every router installed by a swap held, when installed, the routes of every
\* endpoint of the list, and holds the same routes ever since.
C10_InstalledTablesFullyBuilt ==
    /\ router \in InstalledRouters
    /\ routers[1] = <<>>
    /\ \A w \in Workers : worker[w].pc # "idle" => worker[w].sr \in InstalledRouters
    /\ \A i \in 1..Len(log) :
          /\ log[i].routes = reloadRoutes(log[i].list)
          /\ routers[log[i].router] = log[i].routes

\* C10 witness: a rebuild has added the routes of one endpoint of two to its
\* new router while a dispatch has taken the installed one.
C10_Witness ==
    \E c \in Callers, w \in Workers :
        /\ caller[c].pc = "reload_loop"
        /\ Len(caller[c].list) = 2
        /\ caller[c].i = 2
        /\ routers[caller[c].newRouter] # <<>>
        /\ worker[w].pc = "entered"
        /\ worker[w].sr = router
        /\ router # caller[c].newRouter
        /\ router # 1

\* C11: a dispatch that is matching or in its handler does not hold the
\* mutex, and the mutex is held only by a goroutine inside one of the
\* lock / copy / unlock sections; so, under fair scheduling, every
\* registration call that has started returns, its swap included, even
\* when the handlers in progress never return.
C11_SwapNeverWaitsForHandlers ==
    /\ [](\A w \in Workers :
            /\ worker[w].pc \in {"idle", "entered", "unlocked", "served"} => mu # w
            /\ mu = w => worker[w].pc \in {"locked", "read"})
    /\ [](\A c \in Callers :
            mu = c <=> caller[c].pc \in {"swap_write", "swap_unlock"})
    /\ \A c \in Callers : (caller[c].pc # "idle") ~> (caller[c].pc = "idle")

\* C11 witness: a swap has completed, and its call returned, while every
\* request goroutine was in a handler it has not returned from, all of
\* them having taken the table the swap replaced.
C11_Witness ==
    /\ \A w \in Workers :
          /\ worker[w].pc = "served"
          /\ worker[w].served.kind = "handler"
          /\ router \in worker[w].seen
          /\ worker[w].router # router
    /\ \A c \in Callers : caller[c].pc = "idle" /\ caller[c].err = "nil"
    /\ mu = "free"
    /\ Len(log) = 2

\* A step in which goroutine w reads the router field of the shared
\* swappableRouter: the copy of the receiver on entry to ServeHTTP.
ReadsSharedRouter(w) == worker[w].pc = "idle" /\ worker'[w].pc = "entered"

\* C15 as stated: no dispatch reads the router field of the shared holder
\* outside the critical section while a swap, holding the mutex, is at its
\* write of that field.
C15_NoUnlockedReadDuringSwapWrite ==
    [][\A w \in Workers :
          ReadsSharedRouter(w) =>
              \/ mu = w
              \/ \A c \in Callers : caller[c].pc # "swap_write"]_vars

(***************************************************************************)
(* Properties of Spec.                                                     *)
(***************************************************************************)
\* C2 as stated: the installed table is the one compiled from the current
\* list, and it holds a route for every endpoint of the list and for no other.
C2_EveryEndpointHasARoute ==
    /\ routers[router] = reloadRoutes(Endpoints)
    /\ {routers[router][i].ep : i \in 1..Len(routers[router])} = Range(Endpoints)

\* C2, amended: the installed table is the one compiled from the current
\* list: its routes are owned by endpoints of the list only, are grouped by
\* endpoint in list order, the routes of each endpoint being the ones the
\* compilation policy gives it, which are none for an endpoint whose Paths is
\* empty and not nil and at least one for every other endpoint.
C2_InstalledTableIsCompiledFromList ==
    LET routes == routers[router] IN
    /\ routes = reloadRoutes(Endpoints)
    /\ \A i \in 1..Len(routes) : routes[i].ep \in Range(Endpoints)
    /\ \A i, j \in 1..Len(routes) :
          i < j => PlaceOf(Endpoints, routes[i].ep) <= PlaceOf(Endpoints, routes[j].ep)
    /\ \A e \in Range(Endpoints) :
          /\ SelectSeq(routes, LAMBDA r : r.ep = e) = EndpointRoutes(e)
          /\ (\E i \in 1..Len(routes) : routes[i].ep = e)
                <=> (Endpoint(e).Paths.isNil \/ Endpoint(e).Paths.elems # <<>>)

\* C2 witness: a DelEndpoint has returned nil leaving endpoint 3, which has
\* two paths, and the installed table, the third one built, has two routes.
C2_Witness ==
    /\ last.op = "del"
    /\ last.err = "nil"
    /\ Endpoints = <<3>>
    /\ Len(routers[router]) = 2
    /\ router = 4

\* C3: AddEndpoint of an endpoint that is already in the list returns the
\* error, the list is the sequence it was, no router was built and the holder
\* points to the router it pointed to, whose routes are what they were.
C3_DuplicateAddChangesNothing ==
    (last.op = "add" /\ InSeq(last.ep, last.prevEndpoints)) =>
        /\ last.err = "endpoint already added"
        /\ Endpoints = last.prevEndpoints
        /\ Len(routers) = last.prevLen
        /\ router = last.prevRouter
        /\ routers[router] = last.prevRoutes

\* C3 witness: a duplicate AddEndpoint has returned its error with two
\* endpoints registered.
C3_Witness ==
    /\ last.op = "add"
    /\ last.err = "endpoint already added"
    /\ InSeq(last.ep, Endpoints)
    /\ Len(Endpoints) = 2
    /\ router = 3

\* C4: DelEndpoint of an endpoint that is not in the list returns the error,
\* the list is the sequence it was, no router was built and the holder points
\* to the router it pointed to, whose routes are what they were.
C4_DelOfAbsentChangesNothing ==
    (last.op = "del" /\ ~InSeq(last.ep, last.prevEndpoints)) =>
        /\ last.err = "endpoint not found"
        /\ Endpoints = last.prevEndpoints
        /\ Len(routers) = last.prevLen
        /\ router = last.prevRouter
        /\ routers[router] = last.prevRoutes

\* C4 witness: a DelEndpoint of an absent endpoint has returned its error
\* with two other endpoints registered.
C4_Witness ==
    /\ last.op = "del"
    /\ last.err = "endpoint not found"
    /\ ~InSeq(last.ep, Endpoints)
    /\ Len(Endpoints) = 2
    /\ router = 3

\* Whether x and y are the only endpoints of the list with a route matching req.
OnlyMatchers(x, y, req) ==
    \A z \in Range(Endpoints) : Matches(z, req) => z \in {x, y}

\* C5 as stated: when two registered endpoints (and no third) match the
\* request exactly, the request reaches the handler of the later-registered.
C5_LastRegisteredWins ==
    last.op = "serve" =>
        \A i, j \in 1..Len(Endpoints) :
            (/\ i < j
             /\ ExactMatch(Endpoints[i], last.req)
             /\ ExactMatch(Endpoints[j], last.req)
             /\ OnlyMatchers(Endpoints[i], Endpoints[j], last.req))
            => last.served.h = Endpoint(Endpoints[j]).Handler

\* C5, amended: when two registered endpoints match the request exactly, the
\* request is never dispatched to the later-registered one, and it is
\* dispatched to the earlier-registered one unless an endpoint registered
\* before it has a route that matches the request too.
C5_FirstRegisteredWins ==
    last.op = "serve" =>
        \A i, j \in 1..Len(Endpoints) :
            (/\ i < j
             /\ ExactMatch(Endpoints[i], last.req)
             /\ ExactMatch(Endpoints[j], last.req))
            => /\ last.served.ep # Endpoints[j]
               /\ (\A k \in 1..(i - 1) : ~Matches(Endpoints[k], last.req))
                     => ServedBy(last.served, Endpoints[i])

\* C5 witness: GET /a has been dispatched with endpoint 1 registered before
\* endpoint 3, both having the path /a, and reached endpoint 1.
C5_Witness ==
    /\ last.op = "serve"
    /\ last.req = GetA
    /\ Endpoints = <<1, 3>>
    /\ ServedBy(last.served, 1)

\* C6 as stated: with an endpoint x with explicit paths and a global catch-all
\* y registered (and no third endpoint matching), a request matching x's
\* method and path reaches x, whatever the order of x and y in the list.
C6_SpecificWinsWhateverTheOrder ==
    last.op = "serve" =>
        \A x, y \in Range(Endpoints) :
            (/\ HasExplicitPaths(x)
             /\ IsCatchAll(y)
             /\ ExactMatch(x, last.req)
             /\ OnlyMatchers(x, y, last.req))
            => ServedBy(last.served, x)

\* C6, amended: with an endpoint x with explicit paths and a global catch-all
\* y registered (and no third endpoint matching), a request matching x's
\* method and path reaches x and not y when x was registered before y, and
\* reaches y and not x when y was registered before x.
C6_SpecificWinsWhenRegisteredFirst ==
    last.op = "serve" =>
        \A x, y \in Range(Endpoints) :
            (/\ HasExplicitPaths(x)
             /\ IsCatchAll(y)
             /\ ExactMatch(x, last.req)
             /\ OnlyMatchers(x, y, last.req))
            => IF PlaceOf(Endpoints, x) < PlaceOf(Endpoints, y)
               THEN ServedBy(last.served, x)
               ELSE ServedBy(last.served, y)

\* C6 witness: GET /a has been dispatched with the catch-all 2 registered
\* before endpoint 1, and reached the catch-all.
C6_Witness ==
    /\ last.op = "serve"
    /\ last.req = GetA
    /\ Endpoints = <<2, 1>>
    /\ ServedBy(last.served, 2)

\* C7: after AddEndpoint(1) alone, POST /a reaches no endpoint handler; after
\* AddEndpoint(2), the catch-all, POST /a reaches 2 and GET /a reaches 1;
\* after DelEndpoint(1), GET /a reaches 2.
C7_CatchAllFallThrough ==
    last.op = "serve" =>
        /\ (LogOps = << <<"add", 1>> >> /\ last.req = PostA)
              => last.served.kind # "handler"
        /\ (LogOps = << <<"add", 1>>, <<"add", 2>> >> /\ last.req = PostA)
              => ServedBy(last.served, 2)
        /\ (LogOps = << <<"add", 1>>, <<"add", 2>> >> /\ last.req = GetA)
              => ServedBy(last.served, 1)
        /\ (LogOps = << <<"add", 1>>, <<"add", 2>>, <<"del", 1>> >>
               /\ last.req = GetA)
              => ServedBy(last.served, 2)

\* C7 witness: the three mutations have been made in that order and GET /a
\* has then reached the catch-all.
C7_Witness ==
    /\ LogOps = << <<"add", 1>>, <<"add", 2>>, <<"del", 1>> >>
    /\ last.op = "serve"
    /\ last.req = GetA
    /\ ServedBy(last.served, 2)
    /\ Endpoints = <<2>>

\* C8: no endpoint is twice in the list.
C8_NoDuplicateIdentity ==
    \A i, j \in 1..Len(Endpoints) : Endpoints[i] = Endpoints[j] => i = j

\* C8 witness: after an addition, a removal and another addition, a duplicate
\* AddEndpoint has been refused.
C8_Witness ==
    /\ Len(log) = 3
    /\ log[2].op = "del"
    /\ last.op = "add"
    /\ last.err = "endpoint already added"
    /\ Endpoints # <<>>

\* C9: when the last two mutations are AddEndpoint(E) and DelEndpoint(E), for
\* an E that was not registered, the list is the sequence it was before the
\* addition and the installed table gives every request the handler that the
\* table installed before the addition gave it.
C9_AddThenDelRoundTrip ==
    LET n == Len(log) IN
    (/\ n >= 2
     /\ log[n - 1].op = "add"
     /\ log[n].op = "del"
     /\ log[n].ep = log[n - 1].ep)
    => /\ Endpoints = ListBefore(n - 1)
       /\ \A req \in Requests :
             RouterServe(routers[router], req)
                = RouterServe(RoutesBefore(n - 1), req)

\* C9 witness: an endpoint was added to a list of one and removed again, the
\* table in between having routed differently from the one now installed.
C9_Witness ==
    LET n == Len(log) IN
    /\ n = 3
    /\ log[n - 1].op = "add"
    /\ log[n].op = "del"
    /\ log[n].ep = log[n - 1].ep
    /\ last.op = "del"
    /\ Len(Endpoints) = 1
    /\ \E req \in Requests :
          RouterServe(log[n - 1].routes, req) # RouterServe(routers[router], req)

\* Two endpoint objects with equal fields.
Twins(x, y) == x # y /\ Endpoint(x) = Endpoint(y)

\* The routes of the installed table registered for endpoint e.
InstalledRoutesOf(e) == SelectSeq(routers[router], LAMBDA r : r.ep = e)

\* C12: for two distinct endpoint objects x, y with equal fields: AddEndpoint
\* of x when y is registered and x is not succeeds, and both are in the list
\* with their routes installed; DelEndpoint of x when both are registered
\* succeeds, removes x and its routes only, and y is still in the list with
\* its routes installed.
C12_IdentityNotValue ==
    \A x, y \in EndpointIds :
        (Twins(x, y) /\ last.ep = x /\ InSeq(y, last.prevEndpoints)) =>
            /\ (last.op = "add" /\ ~InSeq(x, last.prevEndpoints)) =>
                  /\ last.err = "nil"
                  /\ Endpoints = Append(last.prevEndpoints, x)
                  /\ InstalledRoutesOf(x) = EndpointRoutes(x)
                  /\ InstalledRoutesOf(y) = EndpointRoutes(y)
            /\ (last.op = "del" /\ InSeq(x, last.prevEndpoints)) =>
                  /\ last.err = "nil"
                  /\ ~InSeq(x, Endpoints)
                  /\ InSeq(y, Endpoints)
                  /\ InstalledRoutesOf(x) = <<>>
                  /\ InstalledRoutesOf(y) = EndpointRoutes(y)
                  /\ InstalledRoutesOf(y) # <<>>

\* C12 witness: endpoints 1 and 6, equal field by field, were both added;
\* DelEndpoint(1) has returned nil and GET /a is routed to endpoint 6.
C12_Witness ==
    /\ Twins(1, 6)
    /\ last.op = "del"
    /\ last.ep = 1
    /\ last.err = "nil"
    /\ last.prevEndpoints = <<1, 6>>
    /\ Endpoints = <<6>>
    /\ ServedBy(RouterServe(routers[router], GetA), 6)

\* The HTTP methods of the requests in use.
HTTPMethods == {"GET", "POST"}

\* Whether route r takes exactly the methods of ms, whatever their case.
RestrictedTo(r, ms) ==
    \A m \in HTTPMethods : MethodMatches(r, m) <=> InSeq(m, MapUpper(ms))

AnyMethod(r) == \A m \in HTTPMethods : MethodMatches(r, m)

\* C13: in the installed table the routes come endpoint by endpoint in list
\* order, and the routes of an endpoint of the list are: with Paths nil and
\* Methods nil, one prefix route on "/" taking any method; with Paths nil and
\* Methods given, one prefix route on "/" taking those methods only; with
\* Paths given and Methods nil, one route per path, in order, taking any
\* method; with both given, one route per path taking those methods only.
\* Every route has the handler of its endpoint.
C13_CompilationPolicy ==
    LET routes == routers[router] IN
    /\ \A i, j \in 1..Len(routes) :
          i < j => PlaceOf(Endpoints, routes[i].ep) <= PlaceOf(Endpoints, routes[j].ep)
    /\ \A e \in Range(Endpoints) :
          LET rs == InstalledRoutesOf(e)
              ms == Endpoint(e).Methods
              ps == Endpoint(e).Paths
          IN  /\ \A i \in 1..Len(rs) : rs[i].handler = Endpoint(e).Handler
              /\ ps.isNil =>
                    /\ Len(rs) = 1
                    /\ rs[1].kind = "prefix"
                    /\ rs[1].tpl = PathRoot
              /\ ~ps.isNil =>
                    /\ Len(rs) = Len(ps.elems)
                    /\ \A i \in 1..Len(rs) :
                          rs[i].kind = "path" /\ rs[i].tpl = ps.elems[i]
              /\ \A i \in 1..Len(rs) :
                    IF ms.isNil THEN AnyMethod(rs[i])
                    ELSE RestrictedTo(rs[i], ms.elems)

\* C13 witness: the list holds an endpoint with methods and no paths, one
\* with two paths and no methods and one with a method and a path, and the
\* installed table has their four routes.
C13_Witness ==
    /\ Endpoints = <<4, 3, 1>>
    /\ Len(routers[router]) = 4
    /\ routers[router][1].kind = "prefix"
    /\ ~AnyMethod(routers[router][1])
    /\ AnyMethod(routers[router][2])
    /\ ~AnyMethod(routers[router][4])

\* C16: a DelEndpoint(E) that returned nil started from a list holding E at
\* one place, and the list is now that list without that entry, the other
\* entries in the order they had; an AddEndpoint(E) that returned nil left
\* the list it started from as it was and put E after its last entry.
C16_MutationFrame ==
    LET prev == last.prevEndpoints IN
    /\ (last.op = "del" /\ last.err = "nil") =>
          /\ Cardinality({i \in 1..Len(prev) : prev[i] = last.ep}) = 1
          /\ Len(Endpoints) = Len(prev) - 1
          /\ Endpoints = SelectSeq(prev, LAMBDA x : x # last.ep)
          /\ \A x, y \in Range(Endpoints) :
                PlaceOf(Endpoints, x) < PlaceOf(Endpoints, y)
                   <=> PlaceOf(prev, x) < PlaceOf(prev, y)
    /\ (last.op = "add" /\ last.err = "nil") =>
          /\ Len(Endpoints) = Len(prev) + 1
          /\ Endpoints[Len(Endpoints)] = last.ep
          /\ \A i \in 1..Len(prev) : Endpoints[i] = prev[i]

\* C16 witness: the first of two endpoints has been removed, after the list
\* had been built by two additions.
C16_Witness ==
    /\ last.op = "del"
    /\ last.err = "nil"
    /\ Len(last.prevEndpoints) = 2
    /\ last.ep = last.prevEndpoints[1]
    /\ Endpoints = <<last.prevEndpoints[2]>>
    /\ LogOps[2][1] = "add"

\* An endpoint whose Paths is an empty slice that is not nil.
EmptyPaths(e) == ~Endpoint(e).Paths.isNil /\ Endpoint(e).Paths.elems = <<>>

\* C18: an endpoint e whose Paths is empty and not nil is added, refused as
\* a duplicate and removed like any other; no router ever built holds a
\* route registered for e, and the installed table dispatches no request to
\* e; every prefix route of every router belongs to an endpoint whose Paths
\* is nil.
C18_EmptyPathsNeverRouted ==
    /\ \A e \in EndpointIds : EmptyPaths(e) =>
          /\ (last.op = "add" /\ last.ep = e) =>
                IF InSeq(e, last.prevEndpoints)
                THEN last.err = "endpoint already added" /\ Endpoints = last.prevEndpoints
                ELSE last.err = "nil" /\ Endpoints = Append(last.prevEndpoints, e)
          /\ (last.op = "del" /\ last.ep = e) =>
                IF InSeq(e, last.prevEndpoints)
                THEN last.err = "nil" /\ ~InSeq(e, Endpoints)
                ELSE last.err = "endpoint not found" /\ Endpoints = last.prevEndpoints
          /\ \A p \in 1..Len(routers) : \A i \in 1..Len(routers[p]) :
                routers[p][i].ep # e
          /\ \A req \in Requests : RouterServe(routers[router], req).ep # e
          /\ last.op = "serve" => last.served.ep # e
    /\ \A p \in 1..Len(routers) : \A i \in 1..Len(routers[p]) :
          routers[p][i].kind = "prefix" => Endpoint(routers[p][i].ep).Paths.isNil

\* C18 witness: endpoint 5, whose Paths is empty and not nil, is the only
\* endpoint of the list, the table built for that list is installed and has
\* no route, and GET /a has been answered with mux's not-found handler.
C18_Witness ==
    /\ EmptyPaths(5)
    /\ Endpoints = <<5>>
    /\ routers[router] = <<>>
    /\ router = 2
    /\ last.op = "serve"
    /\ last.req = GetA
    /\ last.served = NotFound

(***************************************************************************)
(* Properties of SpecWatch.                                                *)
(***************************************************************************)
\* C14 as stated: once the context is cancelled, Shutdown is eventually
\* requested and the watcher's loop terminates.
C14_CancelLeadsToWatcherExit ==
    (watch.ctx = "Canceled") ~> (watch.shutdowns = 1 /\ watch.pc = "exited")

\* C14, amended: Shutdown is requested by the watcher at most once and only
\* with the context cancelled; once the context is cancelled Shutdown is
\* eventually requested; the watcher's loop has terminated only after that
\* request, and terminates once Shutdown has been requested and no request
\* is being served.
C14_CancelLeadsToOneShutdown ==
    /\ [](/\ watch.shutdowns <= 1
          /\ watch.shutdowns = 1 => watch.ctx = "Canceled"
          /\ watch.pc \in {"shutting", "exited"} <=> watch.shutdowns = 1)
    /\ (watch.ctx = "Canceled") ~> (watch.shutdowns = 1)
    /\ (watch.shutdowns = 1 /\ InFlight = {}) ~> (watch.pc = "exited")

\* C14 witness: the context was cancelled, Shutdown was requested once, the
\* listener is closed and the watcher's loop has terminated, an endpoint
\* being registered.
C14_Witness ==
    /\ watch.ctx = "Canceled"
    /\ watch.shutdowns = 1
    /\ watch.pc = "exited"
    /\ watch.listen = "closed"
    /\ Endpoints # <<>>

\* C17 as stated: whenever the context is done, by cancellation or by its
\* deadline, the watcher eventually requests Shutdown.
C17_DoneLeadsToShutdown ==
    (watch.ctx # "nil") ~> (watch.shutdowns >= 1)

(***************************************************************************)
(* Properties of SpecHandler.                                              *)
(***************************************************************************)
\* The request goroutines whose handlers call the registration API.
CallingHandlers == HandlerCallers \cap Workers

\* C19: while a handler's AddEndpoint / DelEndpoint call runs, its request
\* is in that handler and its dispatch does not hold the mutex (the mutex is
\* held by that goroutine only inside the call's swap); the call always
\* returns; and from the routing of a request to the return of its handler
\* the handler is the one the table captured on entry gave, whatever the
\* call has installed.
C19_HandlerCallCompletes ==
    /\ [](\A w \in CallingHandlers :
            /\ caller[w].pc # "idle" =>
                  /\ worker[w].pc = "served"
                  /\ worker[w].served.kind = "handler"
                  /\ mu = w <=> caller[w].pc \in {"swap_write", "swap_unlock"}
            /\ worker[w].pc = "served" =>
                  worker[w].served = RouterServe(worker[w].snap, worker[w].req))
    /\ [][\A w \in CallingHandlers :
              (worker[w].pc = "served" /\ caller[w].pc # "idle") =>
                  worker'[w] = [worker[w] EXCEPT !.seen = worker'[w].seen]]_vars
    /\ \A w \in CallingHandlers : (caller[w].pc # "idle") ~> (caller[w].pc = "idle")

\* C19 witness: the handler of endpoint 1, serving GET /a, has called
\* DelEndpoint(1); the call has returned nil, the table installed has no
\* route for endpoint 1, and the request is still in that handler.
C19_Witness ==
    /\ worker["w1"].pc = "served"
    /\ ServedBy(worker["w1"].served, 1)
    /\ caller["w1"] = CallerIdle("del", 1, "nil")
    /\ ~InSeq(1, Endpoints)
    /\ RouterServe(routers[router], worker["w1"].req).ep # 1
    /\ worker["w1"].router # router
    /\ mu = "free"

(***************************************************************************)
(* Properties of SpecRace.                                                 *)
(***************************************************************************)
\* Both goroutines' last AddEndpoint calls have returned nil, for two
\* distinct endpoints.
BothAddsReturned ==
    /\ \A c \in RaceCallers :
          caller[c].pc = "idle" /\ caller[c].op = "add" /\ caller[c].err = "nil"
    /\ \A c, d \in RaceCallers : c # d => caller[c].ep # caller[d].ep

BothKeptAndRouted ==
    /\ \A c \in RaceCallers : InSeq(caller[c].ep, Endpoints)
    /\ routers[router] = reloadRoutes(Endpoints)
    /\ \A c \in RaceCallers : InstalledRoutesOf(caller[c].ep) = EndpointRoutes(caller[c].ep)

\* C20 as stated: after two AddEndpoint calls for distinct endpoints, run
\* with nothing serializing them, have both returned nil, the list holds
\* both endpoints and the installed table is the one compiled from the list.
C20_ConcurrentAddsBothKept == BothAddsReturned => BothKeptAndRouted

\* C20, amended: when no AddEndpoint call has started while another was in
\* progress, after two calls for distinct endpoints have both returned nil
\* the list holds both endpoints, once each, and the installed table is the
\* one compiled from the list.
C20_SerializedAddsBothKept ==
    (~overlap /\ BothAddsReturned) =>
        /\ BothKeptAndRouted
        /\ Len(Endpoints) = Cardinality(RaceCallers)

\* C20 witness: c1 has added endpoint 1, then c2 endpoint 2, neither call
\* having started during the other; both are in the list and routed.
C20_Witness ==
    /\ ~overlap
    /\ BothAddsReturned
    /\ caller["c1"].ep = 1
    /\ Endpoints = <<1, 2>>
    /\ router = 3
    /\ Len(routers[router]) = Cardinality(RaceCallers)

=============================================================================
